---------------------------- MODULE Spec2Model ----------------------------
(***************************************************************************)
(* A model of djifix (src/djifix.c, version 2016-04-19): the program that  *)
(* repairs video files left corrupted by DJI quadcopters.  One run reads   *)
(* the file to repair, decides between 'repair type 1' (prepend an 'ftyp'  *)
(* atom header and copy the rest) and 'repair type 2' (re-frame the H.264  *)
(* NAL units behind start codes, after SPS and PPS units chosen by the     *)
(* user), writes the repaired file and returns an exit status.             *)
(*                                                                         *)
(* Representation.  A byte is a number in 0..255.  An 'unsigned' (32 bits) *)
(* is a pair <<hi, lo>> of 16-bit halves and a file position (a 'long',    *)
(* 64 bits) is a pair <<hi, lo>> whose lo is a 16-bit half and whose hi is *)
(* unbounded: TLC's integers are 32-bit signed, and an atom size of        *)
(* 0xFFFFFFFF has to stay exact.  The input is a regular file: fseek       *)
(* follows POSIX (it may set the position beyond the end of the file and   *)
(* fails only for a negative resulting position).                          *)
(***************************************************************************)
EXTENDS Integers, Sequences, FiniteSets, TLC

Half == 256 * 256

Byte == 0..255

(* get4Bytes' "(c1<<24)|(c2<<16)|(c3<<8)|c4". *)
Word(c1, c2, c3, c4) == <<c1 * 256 + c2, c3 * 256 + c4>>

(* The four bytes "w>>24, w>>16, w>>8, w" as fputc writes them (fputc keeps *)
(* the low 8 bits of its argument).                                         *)
WordBytes(w) == <<w[1] \div 256, w[1] % 256, w[2] \div 256, w[2] % 256>>

fourcc_ftyp == Word(102, 116, 121, 112)
fourcc_moov == Word(109, 111, 111, 118)
fourcc_free == Word(102, 114, 101, 101)
fourcc_mdat == Word(109, 100, 97, 116)

W0 == <<0, 0>>
W2 == <<0, 2>>
WFF == <<65535, 65535>>

(* A faulty test of a size: "w <= 8" for "w < 8". *)
WLessEq8(w) == w[1] = 0 /\ w[2] <= 8

(* "w < 8" on an unsigned. *)
WLess8(w) == w[1] = 0 /\ w[2] < 8

(* A faulty "w - 8": the 8 bytes of the header are not taken off. *)
WSub8Whole(w) == w

(* "w - 8" on an unsigned (modulo 2^32). *)
WSub8(w) ==
  IF w[2] >= 8 THEN <<w[1], w[2] - 8>>
  ELSE <<(w[1] + Half - 1) % Half, w[2] + Half - 8>>

(* "w + 8" on an unsigned (modulo 2^32). *)
WAdd8(w) ==
  IF w[2] + 8 < Half THEN <<w[1], w[2] + 8>>
  ELSE <<(w[1] + 1) % Half, w[2] + 8 - Half>>

(* A faulty "(w<<8)|c": the byte c is not or-ed in. *)
WShl8Only(w, c) == <<(w[1] % 256) * 256 + (w[2] \div 256), (w[2] % 256) * 256>>

(* "(w<<8)|c" on an unsigned: the top byte is shifted out. *)
WShl8Or(w, c) == <<(w[1] % 256) * 256 + (w[2] \div 256), (w[2] % 256) * 256 + c>>

(* "w > 0x00FFFFFF" on an unsigned. *)
WTooBig(w) == w[1] > 255

(* A file position n (n < 65536) as a long. *)
Pos(n) == <<0, n>>

(* pos + w, for a long pos and an unsigned w converted to long (LP64: no   *)
(* wrap).                                                                  *)
PosAdd(p, w) ==
  LET s == p[2] + w[2] IN <<p[1] + w[1] + (s \div Half), s % Half>>

(* pos - 8; the result is negative iff the position is below 8. *)
PosBelow8(p) == p[1] = 0 /\ p[2] < 8
PosSub8(p) ==
  IF p[2] >= 8 THEN <<p[1], p[2] - 8>> ELSE <<p[1] - 1, p[2] + Half - 8>>

(* p - n for a small n <= p. *)
WMinus(w, n) ==
  IF w[2] >= n THEN <<w[1], w[2] - n>> ELSE <<w[1] - 1, w[2] + Half - n>>

(* Whether position p is inside a file of len bytes (len < 65536). *)
InFile(p, len) == p[1] = 0 /\ p[2] < len

(* A FILE* open for reading is [pos, eof]: its position and its           *)
(* end-of-file indicator.                                                  *)
Opened == [pos |-> Pos(0), eof |-> FALSE]

(* fseek(fid, w, SEEK_CUR) for an unsigned w: [ok, fid]. A successful      *)
(* fseek clears the end-of-file indicator.                                 *)
fseekCur(fid, w) == [ok |-> TRUE, fid |-> [pos |-> PosAdd(fid.pos, w), eof |-> FALSE]]

(* fseek(fid, -8, SEEK_CUR): fails (nothing changes) below position 8. *)
fseekBack8(fid) ==
  IF PosBelow8(fid.pos) THEN [ok |-> FALSE, fid |-> fid]
  ELSE [ok |-> TRUE, fid |-> [pos |-> PosSub8(fid.pos), eof |-> FALSE]]

(* A faulty restore: the fseek has no effect, the position stays where the *)
(* loop over repeated sequences was left.                                  *)
fseekSetNoMove(fid, p) == [pos |-> fid.pos, eof |-> FALSE]

(* fseek(fid, p, SEEK_SET) for a position p that ftell returned. *)
fseekSet(fid, p) == [pos |-> p, eof |-> FALSE]

(* The one value of the set S. "The({F(r) : r \in {e}})" is F(e) with e    *)
(* worked out once, however often F uses r: the result of a call is bound  *)
(* to a name this way before the code that follows the call uses it.       *)
The(S) == CHOOSE x \in S : TRUE

(* fgetc: [c, fid]; c is -1 (EOF) at the end of the file, where nothing is *)
(* consumed and the end-of-file indicator is set.                          *)
fgetc(f, fid) ==
  IF ~fid.eof /\ InFile(fid.pos, Len(f))
  THEN [c |-> f[fid.pos[2] + 1], fid |-> [pos |-> PosAdd(fid.pos, <<0, 1>>), eof |-> FALSE]]
  ELSE [c |-> -1, fid |-> [pos |-> fid.pos, eof |-> TRUE]]

(* A faulty get1Byte: feof is not tested, the call never fails and at the  *)
(* end of the file the result is EOF as a byte, 0xFF.                      *)
Got1NoEof(r) == [ok |-> TRUE, c |-> r.c % 256, fid |-> r.fid]

(* L340-343: get1Byte's result, given what fgetc returned (r): on failure  *)
(* the result variable is left alone (c is then meaningless).              *)
Got1(r) ==
  IF r.fid.eof THEN [ok |-> FALSE, c |-> 0, fid |-> r.fid]
  ELSE [ok |-> TRUE, c |-> r.c % 256, fid |-> r.fid]

(* get1Byte: [ok, c, fid]. *)
get1Byte(f, fid) == The({Got1(r) : r \in {fgetc(f, fid)}})

(* L349-352, L506-507: n get1Byte calls in a row; they stop at the first   *)
(* that fails (the bytes read before it stay consumed).                    *)
(* [bytes, fid].                                                           *)
RECURSIVE ReadBytes(_, _, _)
RECURSIVE ReadOn(_, _, _)
ReadBytes(f, fid, n) ==
  IF n = 0 THEN [bytes |-> <<>>, fid |-> fid]
  ELSE The({ReadOn(f, r, n) : r \in {get1Byte(f, fid)}})

(* The byte c put before the bytes that rest holds. *)
Push(c, rest) == [bytes |-> <<c>> \o rest.bytes, fid |-> rest.fid]

(* ReadBytes after one get1Byte call, which returned r. *)
ReadOn(f, r, n) ==
  IF ~r.ok THEN [bytes |-> <<>>, fid |-> r.fid]
  ELSE The({Push(r.c, rest) : rest \in {ReadBytes(f, r.fid, n - 1)}})

(* L349-355: the result of get4Bytes, given what its get1Byte calls read   *)
(* (r); old is the value the result variable held, kept on failure.        *)
Got4(r, old) ==
  IF Len(r.bytes) < 4 THEN [ok |-> FALSE, w |-> old, fid |-> r.fid]
  ELSE [ok |-> TRUE, w |-> Word(r.bytes[1], r.bytes[2], r.bytes[3], r.bytes[4]),
        fid |-> r.fid]

(* get4Bytes: [ok, w, fid]. *)
get4Bytes(f, fid, old) == The({Got4(r, old) : r \in {ReadBytes(f, fid, 4)}})

(* A faulty checkAtom: the size read is stored into                        *)
(* *numRemainingBytesToSkip before the tag and the size are checked, so a   *)
(* probe that fails after reading a whole header overwrites the value.     *)
AtomAfterTagEager(a, t, fourccToCheck, old) ==
  IF ~t.ok THEN [ok |-> FALSE, n |-> old, fid |-> t.fid]
  ELSE [ok |-> t.w = fourccToCheck /\ ~WLess8(a.w), n |-> WSub8(a.w), fid |-> t.fid]

(* L364-369: checkAtom once atomSize (a) and fourcc (t) have been read. n  *)
(* is *numRemainingBytesToSkip afterwards: old when the probe fails.       *)
AtomAfterTag(a, t, fourccToCheck, old) ==
  IF ~t.ok \/ t.w # fourccToCheck THEN [ok |-> FALSE, n |-> old, fid |-> t.fid]
  ELSE IF WLess8(a.w) THEN [ok |-> FALSE, n |-> old, fid |-> t.fid]
  ELSE [ok |-> TRUE, n |-> WSub8(a.w), fid |-> t.fid]

(* L362-364: checkAtom once atomSize (a) has been read. *)
AtomAfterSize(f, a, fourccToCheck, old) ==
  IF ~a.ok THEN [ok |-> FALSE, n |-> old, fid |-> a.fid]
  ELSE The({AtomAfterTag(a, t, fourccToCheck, old) : t \in {get4Bytes(f, a.fid, W0)}})

(* checkAtom: [ok, n, fid]. *)
checkAtom(f, fid, fourccToCheck, old) ==
  The({AtomAfterSize(f, a, fourccToCheck, old) : a \in {get4Bytes(f, fid, W0)}})

SPS_2160p30 ==
  <<39, 100, 0, 51, 172, 52, 200, 3, 192, 4, 62, 192, 90, 128, 128, 128, 160, 0, 0, 125, 32, 0,
    29, 76, 29, 12, 0, 7, 39, 8, 0, 1, 201, 195, 151, 121, 113, 161, 128, 0, 228, 225, 0, 0, 57,
    56, 114, 239, 46, 31, 8, 132, 83, 128, 255>>

SPS_2160p25 ==
  <<39, 100, 0, 51, 172, 52, 200, 3, 192, 4, 62, 192, 90, 128, 128, 128, 160, 0, 0, 125, 0, 0,
    24, 106, 29, 12, 0, 7, 39, 8, 0, 1, 201, 195, 151, 121, 113, 161, 128, 0, 228, 225, 0, 0,
    57, 56, 114, 239, 46, 31, 8, 132, 83, 128, 255>>

SPS_2160p24 ==
  <<39, 100, 0, 51, 172, 52, 200, 1, 0, 1, 15, 176, 22, 160, 32, 32, 40, 0, 0, 31, 72, 0, 5,
    220, 7, 67, 0, 1, 201, 194, 0, 0, 114, 112, 229, 222, 92, 104, 96, 0, 57, 56, 64, 0, 14, 78,
    28, 187, 255>>

SPS_1520p30 ==
  <<39, 100, 0, 41, 172, 52, 200, 2, 164, 11, 251, 1, 106, 2, 2, 2, 128, 0, 1, 244, 128, 0, 117,
    48, 116, 48, 0, 19, 18, 192, 0, 4, 196, 180, 93, 229, 198, 134, 0, 2, 98, 88, 0, 0, 152,
    150, 139, 188, 184, 124, 34, 17, 78, 0, 0, 0, 255>>

SPS_1520p25 ==
  <<39, 100, 0, 41, 172, 52, 200, 2, 164, 11, 251, 1, 106, 2, 2, 2, 128, 0, 0, 3, 0, 128, 0, 0,
    25, 116, 48, 0, 19, 18, 192, 0, 4, 196, 180, 93, 229, 198, 134, 0, 2, 98, 88, 0, 0, 152,
    150, 139, 188, 184, 124, 34, 17, 78, 255>>

SPS_1080p60 ==
  <<39, 100, 0, 42, 172, 52, 200, 7, 128, 34, 126, 92, 5, 168, 8, 8, 10, 0, 0, 7, 210, 0, 3,
    169, 129, 208, 192, 0, 76, 75, 0, 0, 19, 18, 209, 119, 151, 26, 24, 0, 9, 137, 96, 0, 2, 98,
    90, 46, 242, 225, 240, 136, 69, 22, 255>>

SPS_1080i60 ==
  <<39, 77, 0, 42, 154, 102, 3, 192, 34, 62, 240, 22, 200, 0, 0, 31, 72, 0, 7, 83, 7, 67, 0, 2,
    54, 120, 0, 2, 54, 120, 93, 229, 198, 134, 0, 4, 108, 240, 0, 4, 108, 240, 187, 203, 135,
    194, 33, 20, 88, 255>>

SPS_1080p50 ==
  <<39, 100, 0, 41, 172, 52, 200, 7, 128, 34, 126, 92, 5, 168, 8, 8, 10, 0, 0, 7, 208, 0, 3, 13,
    65, 208, 192, 0, 76, 75, 0, 0, 19, 18, 209, 119, 151, 26, 24, 0, 9, 137, 96, 0, 2, 98, 90,
    46, 242, 225, 240, 136, 69, 22, 255>>

SPS_1080p30 ==
  <<39, 77, 0, 40, 154, 102, 3, 192, 17, 63, 46, 2, 217, 0, 0, 3, 3, 233, 0, 0, 234, 96, 232,
    96, 0, 226, 152, 0, 3, 138, 96, 187, 203, 141, 12, 0, 28, 83, 0, 0, 113, 76, 23, 121, 112,
    248, 68, 34, 139, 255>>

SPS_1080p25 ==
  <<39, 77, 0, 40, 154, 102, 3, 192, 17, 63, 46, 2, 217, 0, 0, 3, 3, 232, 0, 0, 195, 80, 232,
    96, 0, 220, 240, 0, 3, 115, 184, 187, 203, 141, 12, 0, 27, 158, 0, 0, 110, 119, 23, 121,
    112, 248, 68, 34, 139, 255>>

SPS_1080p24 ==
  <<39, 100, 0, 41, 172, 52, 200, 7, 128, 34, 126, 92, 5, 168, 8, 8, 10, 0, 0, 7, 210, 0, 1,
    119, 1, 208, 192, 0, 190, 188, 0, 0, 190, 188, 23, 121, 113, 161, 128, 1, 125, 120, 0, 1,
    125, 120, 46, 242, 225, 240, 136, 69, 22, 0, 0, 0, 255>>

SPS_720p60 ==
  <<39, 77, 0, 32, 154, 102, 2, 128, 45, 216, 11, 100, 0, 0, 15, 164, 0, 7, 83, 3, 161, 128, 3,
    138, 96, 0, 14, 41, 130, 239, 46, 52, 48, 0, 113, 76, 0, 1, 197, 48, 93, 229, 195, 225, 16,
    138, 52, 255>>

SPS_720p30 ==
  <<39, 77, 0, 31, 154, 102, 2, 128, 45, 216, 11, 100, 0, 0, 15, 164, 0, 3, 169, 131, 161, 128,
    2, 92, 64, 0, 9, 113, 2, 239, 46, 52, 48, 0, 75, 136, 0, 1, 46, 32, 93, 229, 195, 225, 16,
    138, 52, 255>>

SPS_720p25 ==
  <<39, 100, 0, 40, 172, 52, 200, 5, 0, 91, 176, 22, 160, 32, 32, 40, 0, 0, 31, 64, 0, 6, 26,
    135, 67, 0, 15, 212, 128, 0, 253, 75, 93, 229, 198, 134, 0, 31, 169, 0, 1, 250, 150, 187,
    203, 135, 194, 33, 20, 120, 255>>

SPS_480p30 ==
  <<39, 77, 64, 30, 154, 102, 5, 1, 237, 128, 182, 64, 0, 0, 250, 64, 0, 58, 152, 58, 16, 0, 94,
    104, 0, 2, 243, 64, 187, 203, 141, 8, 0, 47, 52, 0, 1, 121, 160, 93, 229, 195, 225, 16, 138,
    60, 255>>

PPS_P2VP ==
  <<40, 238, 60, 128, 255>>

PPS_Inspire ==
  <<40, 238, 56, 48, 255>>

(***************************************************************************)
(* The state of one run.                                                   *)
(*   input, typed    the file to repair; the characters still on stdin     *)
(*   pc              the place main (or the engine it called) has reached  *)
(*   inputFID        the input stream: its position and end-of-file flag   *)
(*   first4Bytes .. nalSize, fileStartIsOK   the program's variables of    *)
(*                   those names (fileStartIsOK is -1 until it is set)     *)
(*   out, eofFill    the bytes written to outputFID: out, followed by      *)
(*                   eofFill (an unsigned) bytes 0xFF, each the result of  *)
(*                   writing the EOF that fgetc returned                   *)
(*   inputFileName   the characters of argv[1] up to its NUL               *)
(*   outputFileNameSize, outputFileName   the size malloc is asked for at  *)
(*                   L288 (-1 before) and the characters, up to the NUL,   *)
(*                   that sprintf writes at L289 from the address malloc   *)
(*                   returned                                              *)
(*   exitStatus      the status the run ends with, -1 while it runs:       *)
(*                   main's return value, or 134 when the process is       *)
(*                   aborted (SIGABRT)                                     *)
(* History (not in the program, kept to state the properties):             *)
(*   started1, started2   how often each repair engine was called          *)
(*   engineDone      an engine returned                                    *)
(*   matches         the offsets of the 'ftyp' headers matched in 'mdat'   *)
(*   winAt           the offset of the 8-byte window when the start check  *)
(*                   ended (-1 before)                                     *)
(*   skipFrom        the offset that followed the last anomalous NAL size  *)
(*                   (-1 if none)                                          *)
(*   fellBack        how repair type 1 fell back to the search for         *)
(*                   0x00000002: the atom the failed probe looked for      *)
(*                   ("none" when there was no fallback), the offset that  *)
(*                   probe began at and the offset the search began at     *)
(***************************************************************************)
VARIABLES input, typed, pc, inputFID, first4Bytes, next4Bytes, repairType,
          numBytesToSkip, curPos, repairType1FtypSize, repairType2Second4Bytes,
          saw2, formatCode, nalSize, out, eofFill, exitStatus,
          started1, started2, engineDone, matches, winAt, skipFrom, fileStartIsOK,
          fellBack, inputFileName, outputFileNameSize, outputFileName

vars == <<input, typed, pc, inputFID, first4Bytes, next4Bytes, repairType,
          numBytesToSkip, curPos, repairType1FtypSize, repairType2Second4Bytes,
          saw2, formatCode, nalSize, out, eofFill, exitStatus,
          started1, started2, engineDone, matches, winAt, skipFrom, fileStartIsOK,
          fellBack, inputFileName, outputFileNameSize, outputFileName>>

fileVars == <<input, typed>>
classVars == <<first4Bytes, next4Bytes, winAt, fileStartIsOK>>
walkVars == <<numBytesToSkip, curPos, repairType1FtypSize, matches>>
scanVars == <<repairType2Second4Bytes, saw2>>
t2Vars == <<formatCode, nalSize, skipFrom>>
outVars == <<out, eofFill>>
histVars == <<started1, started2, engineDone>>
nameVars == <<inputFileName, outputFileNameSize, outputFileName>>

(* The value of a variable that C leaves uninitialized; the program never  *)
(* reads one before writing it.                                            *)
Undef == <<-1, -1>>

(* "return 1" at the end of main, reached by every "break" of its do-loop. *)
Fail == pc' = "exit" /\ exitStatus' = 1

(***************************************************************************)
(* main, up to the check of the start of the file.                         *)
(***************************************************************************)

(* L91-102: the argument count is checked and the input file opened;       *)
(* either can fail.                                                        *)
OpenInput ==
  /\ pc = "main"
  /\ \E opened \in BOOLEAN :
       IF opened THEN pc' = "start" /\ exitStatus' = exitStatus ELSE Fail
  /\ UNCHANGED <<fileVars, inputFID, classVars, repairType, walkVars, scanVars,
                 t2Vars, outVars, histVars, fellBack, nameVars>>

(* L111-116: the first 8 bytes. *)
ReadStart ==
  /\ pc = "start"
  /\ LET a == get4Bytes(input, inputFID, first4Bytes)
         b == get4Bytes(input, a.fid, next4Bytes)
     IN IF ~a.ok
        THEN /\ Fail
             /\ inputFID' = a.fid
             /\ UNCHANGED <<first4Bytes, next4Bytes, fileStartIsOK>>
        ELSE /\ inputFID' = b.fid
             /\ first4Bytes' = a.w
             /\ next4Bytes' = b.w
             /\ IF b.ok
                THEN pc' = "classify" /\ exitStatus' = exitStatus /\ fileStartIsOK' = 1
                ELSE Fail /\ UNCHANGED fileStartIsOK
  /\ UNCHANGED <<fileVars, winAt, repairType, walkVars, scanVars, t2Vars, outVars,
                 histVars, fellBack, nameVars>>

(* The offset of the 8-byte window (first4Bytes, next4Bytes) while the     *)
(* start of the file is checked: the 8 bytes before the read position.     *)
WindowAt == PosSub8(inputFID.pos)[2]

(* A faulty order of the tests: 0x00000002 and the junk words are tested   *)
(* for before 'ftyp'.                                                      *)
BranchFtypLast(first, next) ==
  IF first = W2 THEN "type2"
  ELSE IF first = W0 \/ first = WFF THEN "junk"
  ELSE IF next = fourcc_ftyp THEN "ftyp"
  ELSE "garbage"

(* L118, L126, L131, L144: the branch one iteration of the loop takes, in  *)
(* the order the code tests for them.                                      *)
Branch(first, next) ==
  IF next = fourcc_ftyp THEN "ftyp"
  ELSE IF first = W2 THEN "type2"
  ELSE IF first = W0 \/ first = WFF THEN "junk"
  ELSE "garbage"

(* L118-125 and L164-170: next4Bytes is 'ftyp'. A length below 8, or a     *)
(* failed fseek over the rest of the atom, ends the run; otherwise main    *)
(* goes on to the 'moov' check with repairType still 1.                    *)
FoundFtyp ==
  /\ pc = "classify"
  /\ Branch(first4Bytes, next4Bytes) = "ftyp"
  /\ winAt' = WindowAt
  /\ IF WLess8(first4Bytes)
     THEN Fail /\ fileStartIsOK' = 0 /\ UNCHANGED inputFID
     ELSE LET s == fseekCur(inputFID, WSub8(first4Bytes))
          IN /\ inputFID' = s.fid
             /\ IF s.ok
                THEN pc' = "moov" /\ exitStatus' = exitStatus /\ UNCHANGED fileStartIsOK
                ELSE Fail /\ fileStartIsOK' = 0
  /\ UNCHANGED <<fileVars, first4Bytes, next4Bytes, repairType, walkVars, scanVars,
                 t2Vars, outVars, histVars, fellBack, nameVars>>

(* L126-130 and L164-170, L273: first4Bytes is 0x00000002. *)
FoundType2 ==
  /\ pc = "classify"
  /\ Branch(first4Bytes, next4Bytes) = "type2"
  /\ winAt' = WindowAt
  /\ repairType' = 2
  /\ repairType2Second4Bytes' = next4Bytes
  /\ pc' = "open"
  /\ UNCHANGED <<fileVars, inputFID, first4Bytes, next4Bytes, fileStartIsOK, walkVars,
                 saw2, t2Vars, outVars, histVars, exitStatus, fellBack,
                 nameVars>>

(* L131-143: first4Bytes is 0x00000000 or 0xFFFFFFFF: the window moves on  *)
(* by 4 bytes.                                                             *)
SkipJunkWord ==
  /\ pc = "classify"
  /\ Branch(first4Bytes, next4Bytes) = "junk"
  /\ first4Bytes' = next4Bytes
  /\ LET r == get4Bytes(input, inputFID, next4Bytes)
     IN /\ inputFID' = r.fid
        /\ next4Bytes' = r.w
        /\ IF r.ok
           THEN pc' = pc /\ winAt' = winAt /\ exitStatus' = exitStatus
                /\ UNCHANGED fileStartIsOK
           ELSE Fail /\ winAt' = WindowAt /\ fileStartIsOK' = 0
  /\ UNCHANGED <<fileVars, repairType, walkVars, scanVars, t2Vars, outVars, histVars,
                 fellBack, nameVars>>

(* L144-162: anything else is garbage: the window moves on by 1 byte. *)
SkipGarbage ==
  /\ pc = "classify"
  /\ Branch(first4Bytes, next4Bytes) = "garbage"
  /\ LET r == get1Byte(input, inputFID)
     IN /\ inputFID' = r.fid
        /\ IF r.ok
           THEN /\ first4Bytes' = WShl8Or(first4Bytes, next4Bytes[1] \div 256)
                /\ next4Bytes' = WShl8Or(next4Bytes, r.c)
                /\ pc' = pc /\ winAt' = winAt /\ exitStatus' = exitStatus
                /\ UNCHANGED fileStartIsOK
           ELSE /\ Fail /\ winAt' = WindowAt /\ fileStartIsOK' = 0
                /\ UNCHANGED <<first4Bytes, next4Bytes>>
  /\ UNCHANGED <<fileVars, repairType, walkVars, scanVars, t2Vars, outVars, histVars,
                 fellBack, nameVars>>

(***************************************************************************)
(* main, repair type 1: the walk over 'moov', 'free', 'mdat' and 'ftyp'.   *)
(***************************************************************************)

(* L173-184, L189-199: after the probe for an optional atom returned a:   *)
(* its data is skipped when it is there, 8 bytes are rewound when it is    *)
(* not. s is what that fseek returned.                                     *)
Skipped(a, s) == [ok |-> s.ok, n |-> a.n, fid |-> s.fid]
AfterOptional(a) ==
  The({Skipped(a, s) : s \in {IF a.ok THEN fseekCur(a.fid, a.n) ELSE fseekBack8(a.fid)}})

(* L172-185 ('moov') and L188-200 ('free'): [ok, n, fid]; ok is FALSE when *)
(* the fseek failed.                                                       *)
OptionalAtom(f, fid, fourcc, old) ==
  The({AfterOptional(a) : a \in {checkAtom(f, fid, fourcc, old)}})

(* L172-185 *)
CheckMoov ==
  /\ pc = "moov"
  /\ LET r == OptionalAtom(input, inputFID, fourcc_moov, numBytesToSkip)
     IN /\ numBytesToSkip' = r.n
        /\ inputFID' = r.fid
        /\ IF r.ok THEN pc' = "free" /\ exitStatus' = exitStatus ELSE Fail
  /\ UNCHANGED <<fileVars, classVars, repairType, curPos, repairType1FtypSize,
                 matches, scanVars, t2Vars, outVars, histVars, fellBack,
                 nameVars>>

(* L188-200 *)
CheckFree ==
  /\ pc = "free"
  /\ LET r == OptionalAtom(input, inputFID, fourcc_free, numBytesToSkip)
     IN /\ numBytesToSkip' = r.n
        /\ inputFID' = r.fid
        /\ IF r.ok THEN pc' = "mdat" /\ exitStatus' = exitStatus ELSE Fail
  /\ UNCHANGED <<fileVars, classVars, repairType, curPos, repairType1FtypSize,
                 matches, scanVars, t2Vars, outVars, histVars, fellBack,
                 nameVars>>

(* L229-238: no 'ftyp' header in 'mdat' (t): 8 bytes are rewound (b is    *)
(* what that fseek returned) and the search for 0x00000002 is next.        *)
Rewound(t, b) ==
  [to |-> IF b.ok THEN "scan" ELSE "exit", n |-> t.n, fid |-> b.fid]

(* A faulty fallback: the rewind of L233 is missing, the search for        *)
(* 0x00000002 begins behind the 8 bytes the probe for 'ftyp' read.         *)
AfterInnerFtypNoRewind(t) ==
  [to |-> IF t.ok THEN "walk" ELSE "scan", n |-> t.n, fid |-> t.fid]

(* L207, L229-238: after the probe for 'ftyp' in 'mdat' returned t. *)
AfterInnerFtyp(t) ==
  IF t.ok THEN [to |-> "walk", n |-> t.n, fid |-> t.fid]
  ELSE The({Rewound(t, b) : b \in {fseekBack8(t.fid)}})

(* L203-207, L239-244: after the probe for 'mdat' returned m. *)
AfterMdat(f, m, old) ==
  IF ~m.ok THEN [to |-> "scan", n |-> old, fid |-> m.fid]
  ELSE The({AfterInnerFtyp(t) : t \in {checkAtom(f, m.fid, fourcc_ftyp, old)}})

(* L203-207 and L229-244: the 'mdat' header, then the 'ftyp' header that   *)
(* should begin its data. [to, n, fid]: to is where main goes next: the    *)
(* loop over repeated sequences ("walk"), the search for 0x00000002 with   *)
(* repairType 2 ("scan"), or the end of the run ("exit").                  *)
MdatProbe(f, fid, old) ==
  The({AfterMdat(f, m, old) : m \in {checkAtom(f, fid, fourcc_mdat, W0)}})

(* No probe has failed into the search for 0x00000002. *)
NoFallback == [probe |-> "none", at |-> -1, scan |-> -1]

(* L203-207, L229-244 *)
CheckMdat ==
  /\ pc = "mdat"
  /\ LET r == MdatProbe(input, inputFID, numBytesToSkip)
         m == checkAtom(input, inputFID, fourcc_mdat, W0)
     IN /\ numBytesToSkip' = r.n
        /\ fellBack' = IF r.to # "scan" THEN fellBack
                       ELSE IF m.ok
                       THEN [probe |-> "ftyp", at |-> m.fid.pos[2], scan |-> r.fid.pos[2]]
                       ELSE [probe |-> "mdat", at |-> inputFID.pos[2], scan |-> r.fid.pos[2]]
        /\ inputFID' = r.fid
        /\ matches' = IF r.to = "walk"
                      THEN Append(matches, PosSub8(r.fid.pos)[2]) ELSE matches
        /\ repairType' = IF r.to = "scan" THEN 2 ELSE repairType
        /\ IF r.to = "exit" THEN Fail ELSE pc' = r.to /\ exitStatus' = exitStatus
  /\ UNCHANGED <<fileVars, classVars, curPos, repairType1FtypSize, scanVars, t2Vars,
                 outVars, histVars, nameVars>>

(* L218-222: an iteration of the loop over repeated sequences that leaves *)
(* it by a break: numBytesToSkip keeps its value n.                        *)
Broke(n, fid) == [again |-> FALSE, n |-> n, fid |-> fid, hdr |-> fid.pos]

(* L222: after the probe for the next 'ftyp' header (at md.fid) returned   *)
(* ft.                                                                     *)
WalkEnd(md, ft) == [again |-> ft.ok, n |-> ft.n, fid |-> ft.fid, hdr |-> md.fid.pos]

(* L221-222: after the probe for 'mdat' returned md. *)
WalkFtyp(f, md, n) ==
  IF ~md.ok THEN Broke(n, md.fid)
  ELSE The({WalkEnd(md, ft) : ft \in {checkAtom(f, md.fid, fourcc_ftyp, n)}})

(* L220-221: after the fseek over the 'moov' data returned s2. *)
WalkMdat(f, s2, n) ==
  IF ~s2.ok THEN Broke(n, s2.fid)
  ELSE The({WalkFtyp(f, md, n) : md \in {checkAtom(f, s2.fid, fourcc_mdat, W0)}})

(* L219-220: after the probe for 'moov' returned mv. *)
WalkSkipMoov(f, mv, n) ==
  IF ~mv.ok THEN Broke(n, mv.fid)
  ELSE The({WalkMdat(f, s2, n) : s2 \in {fseekCur(mv.fid, mv.n)}})

(* L218-219: after the fseek over the 'ftyp' data returned s1. *)
WalkMoov(f, s1, n) ==
  IF ~s1.ok THEN Broke(n, s1.fid)
  ELSE The({WalkSkipMoov(f, mv, n) : mv \in {checkAtom(f, s1.fid, fourcc_moov, W0)}})

(* L217-223: one iteration of the loop over repeated 'ftyp', 'moov',       *)
(* 'mdat'('ftyp') sequences, from the position after a matched 'ftyp'      *)
(* header whose data size is n. [again, n, fid, hdr]: again is FALSE when  *)
(* the iteration left the loop by a break; hdr is the position of the      *)
(* 'ftyp' header it matched.                                               *)
WalkOnce(f, fid, n) == The({WalkMoov(f, s1, n) : s1 \in {fseekCur(fid, n)}})

(* L214-228: one iteration; when it breaks, the position remembered at its *)
(* start is restored and the size for the repair is set.                   *)
WalkStep ==
  /\ pc = "walk"
  /\ LET r == WalkOnce(input, inputFID, numBytesToSkip)
     IN /\ curPos' = inputFID.pos
        /\ numBytesToSkip' = r.n
        /\ IF r.again
           THEN /\ inputFID' = r.fid
                /\ matches' = Append(matches, r.hdr[2])
                /\ pc' = pc
                /\ UNCHANGED repairType1FtypSize
           ELSE /\ inputFID' = fseekSet(r.fid, inputFID.pos)
                /\ repairType1FtypSize' = WAdd8(r.n)
                /\ pc' = "open"
                /\ UNCHANGED matches
  /\ UNCHANGED <<fileVars, classVars, repairType, scanVars, t2Vars, outVars,
                 histVars, exitStatus, fellBack, nameVars>>

(* L260-261: the first word was not 0x00000002; c is what the read of one *)
(* more word returned.                                                     *)
ScanThird(c) == [found |-> FALSE, again |-> c.ok, next |-> c.w, fid |-> c.fid]

(* L253-261: after the two words a and b have been read. *)
ScanSecond(f, a, b) ==
  IF ~b.ok THEN [found |-> FALSE, again |-> FALSE, next |-> W0, fid |-> b.fid]
  ELSE IF a.w = W2 THEN [found |-> TRUE, again |-> FALSE, next |-> b.w, fid |-> b.fid]
  ELSE The({ScanThird(c) : c \in {get4Bytes(f, b.fid, b.w)}})

(* L253: after the first word a has been read. *)
ScanFirst(f, a) ==
  IF ~a.ok THEN [found |-> FALSE, again |-> FALSE, next |-> W0, fid |-> a.fid]
  ELSE The({ScanSecond(f, a, b) : b \in {get4Bytes(f, a.fid, W0)}})

(* L253-262: one iteration of the search for 0x00000002. [found, again,    *)
(* next, fid]: found when the first word read is 0x00000002 (next is then  *)
(* the word after it); again when the loop goes round once more.           *)
ScanOnce(f, fid) == The({ScanFirst(f, a) : a \in {get4Bytes(f, fid, W0)}})

(* L246-270: one iteration; the run ends when the loop is left without     *)
(* 0x00000002 having been seen.                                            *)
ScanStep ==
  /\ pc = "scan"
  /\ LET r == ScanOnce(input, inputFID)
     IN /\ inputFID' = r.fid
        /\ saw2' = IF r.found THEN 1 ELSE 0
        /\ repairType2Second4Bytes' =
             IF r.found THEN r.next ELSE repairType2Second4Bytes
        /\ IF r.found THEN pc' = "open" /\ exitStatus' = exitStatus
           ELSE IF r.again THEN pc' = pc /\ exitStatus' = exitStatus
           ELSE Fail
  /\ UNCHANGED <<fileVars, classVars, repairType, walkVars, t2Vars, outVars,
                 histVars, fellBack, nameVars>>

(***************************************************************************)
(* main, from the opening of the output file to its return.                *)
(***************************************************************************)

(* L74: "-repaired". *)
repairedFilenameStr == <<45, 114, 101, 112, 97, 105, 114, 101, 100>>

(* L280-283: the index (from 1) in s of what dotPtr points to: the last    *)
(* '.' of s, or the NUL that ends s when it has none.                      *)
dotPtr(s) ==
  IF \E i \in 1..Len(s) : s[i] = 46
  THEN CHOOSE i \in 1..Len(s) : s[i] = 46 /\ \A j \in (i + 1)..Len(s) : s[j] # 46
  ELSE Len(s) + 1

(* L284: "*dotPtr = '\0'" cuts the string s at dotPtr. *)
CutAtDot(s) == SubSeq(s, 1, dotPtr(s) - 1)

(* L286: the length of "mp4" or of "h264". *)
suffixLen(type) == IF type = 1 THEN 3 ELSE 4

(* L287: "(dotPtr - inputFileName) + 1 + suffixLen + 1". *)
NameSize(s, type) == (dotPtr(s) - 1) + 1 + suffixLen(type) + 1

(* L289-290: the characters sprintf writes for "%s%s.%s" before the NUL:   *)
(* the name as cut at L284, "-repaired", '.', and "mp4" or "h264".         *)
sprintfName(cut, type) ==
  cut \o repairedFilenameStr \o <<46>>
      \o (IF type = 1 THEN <<109, 112, 52>> ELSE <<104, 50, 54, 52>>)

(* L289-292: what can follow sprintf. Within the buffer, fopen returns a   *)
(* stream or NULL. A write beyond the end of the buffer is undefined: with *)
(* glibc it lands in the slack of the heap chunk and nothing is noticed,   *)
(* or it damages the heap and the malloc in fopen aborts the process       *)
(* ("malloc(): corrupted top size").                                       *)
fopenOutcomes(written, size) ==
  IF written <= size THEN {"opened", "failed"} ELSE {"opened", "failed", "aborted"}

(* L278-298: the output file is named and opened. *)
OpenOutput ==
  /\ pc = "open"
  /\ inputFileName' = CutAtDot(inputFileName)
  /\ outputFileNameSize' = NameSize(inputFileName, repairType)
  /\ outputFileName' = sprintfName(inputFileName', repairType)
  /\ \E outcome \in fopenOutcomes(Len(outputFileName') + 1, outputFileNameSize') :
       CASE outcome = "opened" -> pc' = "repair" /\ exitStatus' = exitStatus
         [] outcome = "failed" -> Fail
         [] outcome = "aborted" -> pc' = "exit" /\ exitStatus' = 134
  /\ UNCHANGED <<fileVars, inputFID, classVars, repairType, walkVars, scanVars,
                 t2Vars, outVars, histVars, fellBack>>

(* A faulty dispatch: the engine is chosen by what the start of the file   *)
(* looked like ('ftyp' in the window or not), not by repairType.           *)
BeginRepairByStart ==
  /\ pc = "repair"
  /\ IF next4Bytes = fourcc_ftyp
     THEN pc' = "type1" /\ started1' = started1 + 1 /\ started2' = started2
     ELSE pc' = "prompt" /\ started2' = started2 + 1 /\ started1' = started1
  /\ UNCHANGED <<fileVars, inputFID, classVars, repairType, walkVars, scanVars,
                 t2Vars, outVars, engineDone, exitStatus, fellBack, nameVars>>

(* L301-305: the call of the repair engine that repairType names. *)
BeginRepair ==
  /\ pc = "repair"
  /\ IF repairType = 1
     THEN pc' = "type1" /\ started1' = started1 + 1 /\ started2' = started2
     ELSE pc' = "prompt" /\ started2' = started2 + 1 /\ started1' = started1
  /\ UNCHANGED <<fileVars, inputFID, classVars, repairType, walkVars, scanVars,
                 t2Vars, outVars, engineDone, exitStatus, fellBack, nameVars>>

(* The number of bytes fgetc can still return: those from the position to  *)
(* the end of the file, none once the end-of-file indicator is set.        *)
Avail(f, fid) ==
  IF ~fid.eof /\ InFile(fid.pos, Len(f)) THEN Len(f) - fid.pos[2] ELSE 0

(* The stream after k bytes were read from it; atEnd when the read after   *)
(* them met the end of the file.                                           *)
ReadOver(fid, k, atEnd) == [pos |-> PosAdd(fid.pos, <<0, k>>), eof |-> atEnd]

(* The k bytes of f that are read from the stream's position on. *)
BytesRead(f, fid, k) ==
  IF k = 0 THEN <<>> ELSE SubSeq(f, fid.pos[2] + 1, fid.pos[2] + k)

(* A faulty copy: the loop tests feof before the read instead of the       *)
(* result of the read, so the EOF of the last read is written as 0xFF.     *)
CopyToEndWritesEOF(f, fid) ==
  [bytes |-> BytesRead(f, fid, Avail(f, fid)) \o <<255>>,
   fid |-> ReadOver(fid, Avail(f, fid), TRUE)]

(* L391: "while (get1Byte(inputFID, &c)) fputc(c, outputFID)": [bytes,    *)
(* fid] are the bytes written and the stream state the loop ends in. Every *)
(* get1Byte that succeeds reads one byte, which is written; the loop ends  *)
(* at the first that fails, at the end of the file, and writes nothing for *)
(* it.                                                                     *)
CopyToEnd(f, fid) ==
  [bytes |-> BytesRead(f, fid, Avail(f, fid)),
   fid |-> ReadOver(fid, Avail(f, fid), TRUE)]

(* L380-385: the header of the 'ftyp' atom, as doRepairType1 writes it. *)
FtypHeader(ftypSize) == WordBytes(ftypSize) \o <<102, 116, 121, 112>>

(* L376-393 *)
doRepairType1 ==
  /\ pc = "type1"
  /\ LET r == CopyToEnd(input, inputFID)
     IN /\ out' = out \o FtypHeader(repairType1FtypSize) \o r.bytes
        /\ inputFID' = r.fid
  /\ engineDone' = TRUE
  /\ pc' = "finish"
  /\ UNCHANGED <<fileVars, classVars, repairType, walkVars, scanVars, t2Vars,
                 eofFill, started1, started2, exitStatus, fellBack, nameVars>>

(* L307-329: the output file is closed and main returns 0. (After repair   *)
(* type 2 the test of L319-322 reads outputFileName, which L310 has freed: *)
(* whether the warning of L323 is printed is not determined; nothing else  *)
(* depends on it.)                                                         *)
Finish ==
  /\ pc = "finish"
  /\ pc' = "exit"
  /\ exitStatus' = 0
  /\ UNCHANGED <<fileVars, inputFID, classVars, repairType, walkVars, scanVars,
                 t2Vars, outVars, histVars, fellBack, nameVars>>

(***************************************************************************)
(* doRepairType2.                                                          *)
(***************************************************************************)

(* L397-399 *)
putStartCode == <<0, 0, 0, 1>>

(* L456-458: the entries the prompt accepts: '0'-'9', 'a'-'e', 'A'-'E'. *)
ValidFormatCode(c) ==
  \/ c >= 48 /\ c <= 57
  \/ c >= 97 /\ c <= 101
  \/ c >= 65 /\ c <= 69

(* L465-482: the switch on formatCode. *)
SpsOf(c) ==
  CASE c = 48 -> SPS_2160p30
    [] c = 49 -> SPS_2160p25
    [] c = 50 -> SPS_2160p24
    [] c = 51 -> SPS_1520p30
    [] c = 52 -> SPS_1520p25
    [] c = 53 -> SPS_1080p60
    [] c = 54 -> SPS_1080i60
    [] c = 55 -> SPS_1080p50
    [] c = 56 -> SPS_1080p30
    [] c = 57 -> SPS_1080p25
    [] c = 97 \/ c = 65 -> SPS_1080p24
    [] c = 98 \/ c = 66 -> SPS_720p60
    [] c = 99 \/ c = 67 -> SPS_720p30
    [] c = 100 \/ c = 68 -> SPS_720p25
    [] c = 101 \/ c = 69 -> SPS_480p30
    [] OTHER -> SPS_1080p30

PpsOf(c) ==
  CASE c = 48 -> PPS_Inspire
    [] c = 49 -> PPS_Inspire
    [] c = 50 -> PPS_Inspire
    [] c = 51 -> PPS_Inspire
    [] c = 52 -> PPS_Inspire
    [] c = 53 -> PPS_Inspire
    [] c = 54 -> PPS_P2VP
    [] c = 55 -> PPS_Inspire
    [] c = 56 -> PPS_P2VP
    [] c = 57 -> PPS_P2VP
    [] c = 97 \/ c = 65 -> PPS_Inspire
    [] c = 98 \/ c = 66 -> PPS_P2VP
    [] c = 99 \/ c = 67 -> PPS_P2VP
    [] c = 100 \/ c = 68 -> PPS_Inspire
    [] c = 101 \/ c = 69 -> PPS_P2VP
    [] OTHER -> PPS_P2VP

(* The index at which "while ((c = *p++) != 0xff)" leaves the loop when it *)
(* begins at index i of array a: that of the first 0xFF from i on.         *)
EndFF(a, i) ==
  CHOOSE j \in i..Len(a) : a[j] = 255 /\ \A k \in i..(j - 1) : a[k] # 255

(* A faulty copy of an SPS or PPS array: the byte is written before it is *)
(* tested, so the 0xFF that ends the array is written too.                 *)
WriteThroughFF(a, i) == SubSeq(a, i, EndFF(a, i))

(* L486, L490: "while ((c = *p++) != 0xff) wr(c)": the bytes written from  *)
(* index i of array a on, those before the 0xFF that ends the loop.        *)
WriteToFF(a, i) == SubSeq(a, i, EndFF(a, i) - 1)

(* L455: getchar: the next character of stdin, -1 (EOF) when there is none. *)
getchar(s) == IF s = <<>> THEN -1 ELSE Head(s)

(* L433-462: one round of the prompt: it is repeated until the entry is a  *)
(* valid format code.                                                      *)
Prompt ==
  /\ pc = "prompt"
  /\ formatCode' = getchar(typed)
  /\ typed' = IF typed = <<>> THEN typed ELSE Tail(typed)
  /\ pc' = IF ValidFormatCode(formatCode') THEN "t2first" ELSE pc
  /\ UNCHANGED <<input, inputFID, classVars, repairType, walkVars, scanVars,
                 nalSize, skipFrom, outVars, histVars, exitStatus, fellBack,
                 nameVars>>

(* L508: "((second4Bytes&0xFFFF)<<16)|(c1<<8)|c2". *)
FirstNalSize(second4Bytes, c1, c2) == <<second4Bytes[2], c1 * 256 + c2>>

(* L464-508: the SPS and PPS NAL units, the first (2-byte) NAL unit, and   *)
(* the size of the NAL unit after it; the engine returns when the input    *)
(* ends within that size.                                                  *)
T2First ==
  /\ pc = "t2first"
  /\ out' = out \o putStartCode \o WriteToFF(SpsOf(formatCode), 1)
                \o putStartCode \o WriteToFF(PpsOf(formatCode), 1)
                \o putStartCode
                \o <<WordBytes(repairType2Second4Bytes)[1],
                     WordBytes(repairType2Second4Bytes)[2]>>
  /\ LET r == ReadBytes(input, inputFID, 2)
     IN /\ inputFID' = r.fid
        /\ IF Len(r.bytes) = 2
           THEN /\ nalSize' = FirstNalSize(repairType2Second4Bytes, r.bytes[1], r.bytes[2])
                /\ pc' = "t2loop"
                /\ UNCHANGED engineDone
           ELSE /\ engineDone' = TRUE
                /\ pc' = "finish"
                /\ UNCHANGED nalSize
  /\ UNCHANGED <<fileVars, classVars, repairType, walkVars, scanVars, formatCode,
                 skipFrom, eofFill, started1, started2, exitStatus, fellBack,
                 nameVars>>

(* Whether the count n is at most k (k < 65536). *)
WAtMost(n, k) == n[1] = 0 /\ n[2] <= k

(* L512-514: "while (nalSize-- > 0) wr(fgetc(inputFID))", for the bytes    *)
(* the file still holds: [bytes, fid, left] are the bytes written, the     *)
(* stream state and the count left when fgetc first returns EOF or the     *)
(* count reaches 0. With n bytes or more to read the loop reads n and      *)
(* never meets the end of the file; with fewer it reads them all and the   *)
(* next fgetc returns EOF.                                                 *)
CopyNal(f, fid, n) ==
  IF n = W0 THEN [bytes |-> <<>>, fid |-> fid, left |-> W0]
  ELSE IF WAtMost(n, Avail(f, fid))
  THEN [bytes |-> BytesRead(f, fid, n[2]), fid |-> ReadOver(fid, n[2], FALSE),
        left |-> W0]
  ELSE [bytes |-> BytesRead(f, fid, Avail(f, fid)),
        fid |-> ReadOver(fid, Avail(f, fid), TRUE),
        left |-> WMinus(n, Avail(f, fid))]

(* L510-514: the loop test, a start code and the NAL unit. From the first  *)
(* EOF on, every remaining fgetc returns EOF as well and wr writes it as   *)
(* the byte 0xFF: eofFill counts those. The loop leaves nalSize at         *)
(* 0xFFFFFFFF (the decrement of 0).                                        *)
T2Copy ==
  /\ pc = "t2loop"
  /\ IF inputFID.eof
     THEN /\ engineDone' = TRUE
          /\ pc' = "finish"
          /\ UNCHANGED <<inputFID, nalSize, outVars>>
     ELSE LET r == CopyNal(input, inputFID, nalSize)
          IN /\ out' = out \o putStartCode \o r.bytes
             /\ eofFill' = r.left
             /\ inputFID' = r.fid
             /\ nalSize' = WFF
             /\ pc' = "t2size"
             /\ UNCHANGED engineDone
  /\ skipFrom' = -1
  /\ UNCHANGED <<fileVars, classVars, repairType, walkVars, scanVars, formatCode,
                 started1, started2, exitStatus, fellBack, nameVars>>

(* L517: "nalSize == 0 || nalSize > 0x00FFFFFF". *)
Anomalous(n) == n = W0 \/ WTooBig(n)

(* L516-517: the size of the next NAL unit; the engine returns at the end  *)
(* of the input.                                                           *)
T2ReadSize ==
  /\ pc = "t2size"
  /\ LET r == get4Bytes(input, inputFID, nalSize)
     IN /\ inputFID' = r.fid
        /\ nalSize' = r.w
        /\ IF ~r.ok
           THEN engineDone' = TRUE /\ pc' = "finish" /\ UNCHANGED skipFrom
           ELSE IF Anomalous(r.w)
           THEN pc' = "t2skip" /\ skipFrom' = r.fid.pos[2] /\ UNCHANGED engineDone
           ELSE pc' = "t2loop" /\ UNCHANGED <<skipFrom, engineDone>>
  /\ UNCHANGED <<fileVars, classVars, repairType, walkVars, scanVars, formatCode,
                 outVars, started1, started2, exitStatus, fellBack, nameVars>>

(* A faulty accumulation: the byte read replaces nalSize instead of being  *)
(* shifted into it.                                                        *)
SkipAccumLastByte(n, c) == <<0, c>>

(* L526: "nalSize = (nalSize<<8)|c". *)
SkipAccum(n, c) == WShl8Or(n, c)

(* A faulty loop over anomalous bytes: the result of get1Byte is not       *)
(* tested, so at the end of the input the loop goes on with the byte it    *)
(* read last.                                                              *)
T2SkipNoReturn ==
  /\ pc = "t2skip"
  /\ LET r == get1Byte(input, inputFID)
     IN /\ inputFID' = r.fid
        /\ nalSize' = IF r.ok THEN SkipAccum(nalSize, r.c) ELSE nalSize
        /\ pc' = IF nalSize' = W2 THEN "t2loop" ELSE pc
  /\ UNCHANGED <<fileVars, classVars, repairType, walkVars, scanVars, formatCode,
                 skipFrom, outVars, histVars, exitStatus, fellBack, nameVars>>

(* L524-527: one iteration of the loop that skips anomalous bytes. *)
T2Skip ==
  /\ pc = "t2skip"
  /\ LET r == get1Byte(input, inputFID)
     IN /\ inputFID' = r.fid
        /\ IF ~r.ok
           THEN engineDone' = TRUE /\ pc' = "finish" /\ UNCHANGED nalSize
           ELSE /\ nalSize' = SkipAccum(nalSize, r.c)
                /\ pc' = IF nalSize' = W2 THEN "t2loop" ELSE pc
                /\ UNCHANGED engineDone
  /\ UNCHANGED <<fileVars, classVars, repairType, walkVars, scanVars, formatCode,
                 skipFrom, outVars, started1, started2, exitStatus, fellBack,
                 nameVars>>

(***************************************************************************)
(* The runs checked: a file to repair and the characters typed at the      *)
(* prompt.  The files are put together from the pieces the program looks   *)
(* for (junk words, garbage bytes, 0x00000002, atom headers, NAL units),   *)
(* whole and damaged.                                                      *)
(***************************************************************************)

(* At most this many leading pieces before the start of a file's data. *)
MaxLead == 3
(* At most this many repetitions of the 'moov', 'mdat'('ftyp') sequence. *)
MaxRep == 2
(* At most this many words before the data in the search for 0x00000002. *)
MaxScanWords == 3
(* At most this many pieces in a stream of NAL units. *)
MaxUnits == 3

(* All concatenations of at most n pieces of S. *)
RECURSIVE Cat(_, _)
Cat(S, n) ==
  IF n = 0 THEN {<<>>}
  ELSE LET P == Cat(S, n - 1) IN P \cup {p \o c : p \in P, c \in S}

B4(n) == <<0, 0, 0, n>>
tag_ftyp == <<102, 116, 121, 112>>
tag_moov == <<109, 111, 111, 118>>
tag_free == <<102, 114, 101, 101>>
tag_mdat == <<109, 100, 97, 116>>

(* A short stream of NAL units behind 0x00000002: the two bytes of the     *)
(* first unit, then one unit of 1 byte and one of 2 bytes.                 *)
NalData == <<65, 66>> \o B4(1) \o <<170>> \o B4(2) \o <<187, 204>>

(* The smallest file repair type 1 accepts: 'ftyp', 'mdat', 'ftyp', data. *)
AtomData == B4(8) \o tag_ftyp \o B4(8) \o tag_mdat \o B4(12) \o tag_ftyp \o <<5, 6, 7>>

(* Files for the check of the start of the file. *)
LeadPieces ==
  {B4(0), <<255, 255, 255, 255>>, <<7>>, <<0>>, B4(2), B4(8), tag_ftyp}
StartFiles ==
  {l \o t : l \in Cat(LeadPieces, MaxLead), t \in {<<>>, B4(2) \o NalData, AtomData}}

(* Files for repair type 1: the outer 'ftyp' atom, optional 'moov' and     *)
(* 'free' atoms, 'mdat', then a chain of 'ftyp' headers (each but the last  *)
(* followed by its data, a 'moov' and a 'mdat' header; the last with or    *)
(* without data after it) and an ending.                                    *)
OuterPieces == {B4(8) \o tag_ftyp, B4(12) \o tag_ftyp \o <<1, 2, 3, 4>>}
PrePieces ==
  {<<>>, B4(8) \o tag_moov, B4(12) \o tag_moov \o <<1, 2, 3, 4>>, B4(8) \o tag_free,
   B4(8) \o tag_moov \o B4(12) \o tag_free \o <<1, 2, 3, 4>>}
Link == B4(8) \o tag_moov \o B4(8) \o tag_mdat
RepPieces ==
  {B4(8) \o tag_ftyp \o Link, B4(12) \o tag_ftyp \o <<9, 9, 9, 9>> \o Link}
LastPieces == {B4(16) \o tag_ftyp, B4(12) \o tag_ftyp \o <<8, 8, 8, 8>>}
EndPieces ==
  {<<>>, <<5, 6, 7>>, B4(8) \o tag_moov, Link, Link \o B4(5) \o tag_ftyp,
   Link \o B4(32) \o <<102, 116, 121, 113>>, Link \o <<0, 0, 0>>,
   B4(64) \o tag_moov \o B4(8) \o tag_mdat \o B4(32) \o tag_ftyp}
WalkFiles ==
  {o \o p \o B4(8) \o tag_mdat \o r \o l \o e :
     o \in OuterPieces, p \in PrePieces, r \in Cat(RepPieces, MaxRep),
     l \in LastPieces, e \in EndPieces}

(* Files that fall back from repair type 1 to the search for 0x00000002:   *)
(* no 'mdat', or a 'mdat' that does not begin with 'ftyp'.                 *)
ScanPieces == {B4(2), B4(0), B4(5)}
ScanFiles ==
  {B4(8) \o tag_ftyp \o p \o m \o s \o t :
     p \in {<<>>, B4(8) \o tag_moov}, m \in {<<>>, B4(8) \o tag_mdat, B4(3) \o tag_mdat},
     s \in Cat(ScanPieces, MaxScanWords), t \in {<<>>, <<65>>, NalData}}

(* Files for repair type 2: 0x00000002, the two bytes of the first NAL     *)
(* unit, then NAL units: whole, cut short, or with an anomalous size.      *)
UnitPieces ==
  {B4(1) \o <<170>>, B4(2) \o <<187, 204>>, B4(3) \o <<1, 2, 3>>, B4(5) \o <<221>>,
   B4(0), <<1, 0, 0, 0>>, <<2>>, <<0>>}
NalStarts == {<<65, 66>>, <<0, 255>>}
NalFiles == {B4(2) \o b \o u : b \in NalStarts, u \in Cat(UnitPieces, MaxUnits)}

(* Files that begin with a run of zero bytes: then 'ftyp' at once, or a    *)
(* whole 'ftyp' atom; then 'moov', 'mdat' and the 'ftyp' header in it.     *)
Zeros(n) == [i \in 1..n |-> 0]
ZeroRuns == {8, 40}
ZeroChain ==
  B4(8) \o tag_moov \o B4(8) \o tag_mdat \o B4(12) \o tag_ftyp \o <<5, 6, 7, 8>>
ZeroTagFiles == {Zeros(n) \o tag_ftyp \o ZeroChain : n \in ZeroRuns}
ZeroAtomFiles == {Zeros(n) \o o \o ZeroChain : n \in ZeroRuns, o \in OuterPieces}

(* What is typed at the prompt: "8", or an invalid entry first, or nothing *)
(* at all; every format code is tried on a few files.                      *)
FormatCodes == (48..57) \cup (97..101) \cup (65..69)
FewNalFiles == {B4(2) \o <<65, 66>> \o u : u \in Cat(UnitPieces, 1)}

Runs ==
  {[file |-> f, typed |-> <<56, 10>>] :
     f \in StartFiles \cup WalkFiles \cup ScanFiles \cup NalFiles
            \cup ZeroTagFiles \cup ZeroAtomFiles}
  \cup {[file |-> f, typed |-> <<c, 10>>] : f \in FewNalFiles, c \in FormatCodes}
  \cup {[file |-> f, typed |-> t] :
          f \in FewNalFiles, t \in {<<>>, <<10>>, <<120, 10, 50, 10>>}}

(* The names the file to repair is given (argv[1]): "a.mp4" for every run; *)
(* for two files also a name without '.', one whose last '.' is in a       *)
(* directory's name, one that begins with its only '.', and one of 14      *)
(* characters and ".mp4".                                                  *)
PlainName == <<97, 46, 109, 112, 52>>
FileNames ==
  {PlainName, <<97>>, <<120, 46, 121, 47, 97>>, <<46, 109, 112, 52>>,
   [i \in 1..14 |-> 97] \o <<46, 109, 112, 52>>}
RunNames(r) ==
  IF r.file \in {AtomData, B4(2) \o NalData} /\ r.typed = <<56, 10>>
  THEN FileNames ELSE {PlainName}

Init ==
  /\ \E r \in Runs : /\ input = r.file /\ typed = r.typed
                      /\ inputFileName \in RunNames(r)
  /\ outputFileNameSize = -1
  /\ outputFileName = <<>>
  /\ pc = "main"
  /\ inputFID = Opened
  /\ first4Bytes = Undef
  /\ next4Bytes = Undef
  /\ repairType = 1
  /\ numBytesToSkip = Undef
  /\ curPos = Undef
  /\ repairType1FtypSize = Undef
  /\ repairType2Second4Bytes = Undef
  /\ saw2 = 0
  /\ formatCode = -2
  /\ nalSize = Undef
  /\ out = <<>>
  /\ eofFill = W0
  /\ exitStatus = -1
  /\ started1 = 0
  /\ started2 = 0
  /\ engineDone = FALSE
  /\ matches = <<>>
  /\ winAt = -1
  /\ skipFrom = -1
  /\ fileStartIsOK = -1
  /\ fellBack = NoFallback

Next ==
  \/ OpenInput
  \/ ReadStart
  \/ FoundFtyp
  \/ FoundType2
  \/ SkipJunkWord
  \/ SkipGarbage
  \/ CheckMoov
  \/ CheckFree
  \/ CheckMdat
  \/ WalkStep
  \/ ScanStep
  \/ OpenOutput
  \/ BeginRepair
  \/ doRepairType1
  \/ Prompt
  \/ T2First
  \/ T2Copy
  \/ T2ReadSize
  \/ T2Skip
  \/ Finish

Spec == Init /\ [][Next]_vars

(* The code runs to its end: no step that can be taken is put off for ever. *)
FairSpec == Spec /\ WF_vars(Next)

(***************************************************************************)
(* The properties checked.                                                 *)
(***************************************************************************)

(* The bytes of file f at offsets from .. from + n - 1. *)
BytesAt(f, from, n) == SubSeq(f, from + 1, from + n)

(* The offset in the input of the last 'ftyp' header in 'mdat' that a      *)
(* probe matched.                                                          *)
InnermostFtyp == matches[Len(matches)]

(* C1: once doRepairType1 has run, the first 8 bytes of the output are the *)
(* 4 size bytes of the innermost 'ftyp' header in 'mdat' that was matched  *)
(* (as they stand in the input: data size + 8, big-endian), then 'f', 't', *)
(* 'y', 'p'; a later probe for 'ftyp' that failed has not changed them.    *)
C1_Type1Header ==
  (started1 = 1 /\ engineDone) =>
    /\ matches # <<>>
    /\ Len(out) >= 8
    /\ SubSeq(out, 1, 4) = BytesAt(input, InnermostFtyp, 4)
    /\ SubSeq(out, 5, 8) = tag_ftyp

(* C1's case: two 'ftyp' headers were matched, then the probe for a third  *)
(* read a whole header, 'ftyp' with the size 5, and failed.                *)
C1_Witness ==
  /\ pc = "exit" /\ exitStatus = 0 /\ started1 = 1
  /\ Len(matches) >= 2
  /\ BytesAt(input, matches[1], 4) # BytesAt(input, InnermostFtyp, 4)
  /\ Len(input) >= 8
  /\ BytesAt(input, Len(input) - 8, 8) = B4(5) \o tag_ftyp

(* The value of the 4-byte big-endian size at offset i of f, when its      *)
(* first byte is 0.                                                        *)
UnitLen(f, i) == f[i + 2] * 65536 + f[i + 3] * 256 + f[i + 4]

(* From offset i on, f is a sequence of NAL units, each a 4-byte size in   *)
(* 1..0x00FFFFFF and that many bytes, the last of which ends f.            *)
RECURSIVE WellFormedFrom(_, _)
WellFormedFrom(f, i) ==
  \/ i = Len(f)
  \/ /\ i + 4 <= Len(f)
     /\ f[i + 1] = 0
     /\ UnitLen(f, i) >= 1
     /\ i + 4 + UnitLen(f, i) <= Len(f)
     /\ WellFormedFrom(f, i + 4 + UnitLen(f, i))

(* 0x00000002, two bytes, then at least one NAL unit. *)
WellFormedNal(f) ==
  Len(f) > 6 /\ BytesAt(f, 0, 4) = B4(2) /\ WellFormedFrom(f, 6)

(* The number of NAL units of a well-formed f from offset i on. *)
RECURSIVE UnitCount(_, _)
UnitCount(f, i) ==
  IF i >= Len(f) THEN 0 ELSE 1 + UnitCount(f, i + 4 + UnitLen(f, i))

(* For a well-formed f: each unit from offset i on, its size replaced by a *)
(* start code.                                                             *)
RECURSIVE Restreamed(_, _)
Restreamed(f, i) ==
  IF i >= Len(f) THEN <<>>
  ELSE <<0, 0, 0, 1>> \o BytesAt(f, i + 4, UnitLen(f, i))
         \o Restreamed(f, i + 4 + UnitLen(f, i))

(* The bytes of array a before its first 0xFF. *)
FirstFF(a) ==
  CHOOSE i \in 1..Len(a) : a[i] = 255 /\ \A j \in 1..(i - 1) : a[j] # 255
BeforeFF(a) == SubSeq(a, 1, FirstFF(a) - 1)

(* The SPS and PPS NAL units for format code c, each behind a start code. *)
ParameterSets(sps, pps) ==
  <<0, 0, 0, 1>> \o BeforeFF(sps) \o <<0, 0, 0, 1>> \o BeforeFF(pps)

(* C2: for an input that is 0x00000002, two bytes b0 b1 and a well-formed  *)
(* stream of NAL units, repair type 2 with a valid format code writes      *)
(* exactly: a start code and the SPS for the code up to its 0xFF, a start  *)
(* code and the PPS up to its 0xFF, a start code and b0 b1, then for each  *)
(* unit a start code and its bytes, and no size bytes. For the code '8'    *)
(* the SPS is SPS_1080p30 and the PPS is PPS_P2VP.                         *)
C2_Restream ==
  (WellFormedNal(input) /\ pc = "exit" /\ exitStatus = 0) =>
    /\ ValidFormatCode(formatCode)
    /\ out = ParameterSets(SpsOf(formatCode), PpsOf(formatCode))
               \o <<0, 0, 0, 1>> \o BytesAt(input, 4, 2) \o Restreamed(input, 6)
    /\ eofFill = W0
    /\ formatCode = 56 =>
         SubSeq(out, 1, Len(ParameterSets(SPS_1080p30, PPS_P2VP)))
           = ParameterSets(SPS_1080p30, PPS_P2VP)

(* C2's case: a well-formed stream of three units was repaired with the    *)
(* format code '8'.                                                        *)
C2_Witness ==
  /\ pc = "exit" /\ exitStatus = 0
  /\ WellFormedNal(input) /\ UnitCount(input, 6) = 3
  /\ formatCode = 56

(* C3: in repair type 2 every byte of a NAL unit that is written was read  *)
(* from the input: when the input ends before the size of a unit is        *)
(* reached, nothing more is written for the unit (no byte is written for a *)
(* read that returned end-of-file).                                        *)
C3_OnlyBytesRead == started2 = 1 => eofFill = W0

(* The last four bytes of f before offset p. *)
Last4(f, p) == BytesAt(f, p - 4, 4)

(* The offset in the input the next read starts at. *)
ReadAt == inputFID.pos[2]

(* C4 as it was stated: the skip over anomalous bytes ends right after the *)
(* first 00 00 00 02 that lies wholly after the anomalous size, never      *)
(* earlier.                                                                *)
C4_ResumesAfterField ==
  (pc = "t2loop" /\ skipFrom >= 0) =>
    /\ ReadAt >= skipFrom + 4
    /\ Last4(input, ReadAt) = B4(2)
    /\ \A q \in (skipFrom + 4)..(ReadAt - 1) : Last4(input, q) # B4(2)

(* A byte is skipped: nothing is written. *)
C4_SkipWritesNothing == pc = "t2skip" => out' = out /\ eofFill' = eofFill

(* The skip ends at a 0x00000002: at the first offset, at least one byte   *)
(* after the anomalous size, at which the last four bytes of the input,    *)
(* bytes of the anomalous size among them, are 00 00 00 02.                *)
C4_SkipEndsAtFirst2 ==
  (pc = "t2skip" /\ pc' = "t2loop") =>
    /\ inputFID'.pos[2] >= skipFrom + 1
    /\ Last4(input, inputFID'.pos[2]) = B4(2)
    /\ \A q \in (skipFrom + 1)..ReadAt : Last4(input, q) # B4(2)

(* The skip ends at the end of the input: there was no such offset. *)
C4_SkipEndsAtEof ==
  (pc = "t2skip" /\ pc' = "finish") =>
    \A q \in (skipFrom + 1)..Len(input) : Last4(input, q) # B4(2)

(* After the skip, when the input has 2 more bytes: a start code and these *)
(* 2 bytes are written.                                                    *)
C4_ResumesWith2Bytes ==
  (pc = "t2loop" /\ skipFrom >= 0 /\ ReadAt + 2 <= Len(input)) =>
    /\ out' = out \o <<0, 0, 0, 1>> \o BytesAt(input, ReadAt, 2)
    /\ eofFill' = W0

(* C4: after a size read in repair type 2 that is 0 or above 0x00FFFFFF,   *)
(* none of the bytes skipped is written; the skip ends right after the     *)
(* first byte, one or more past the anomalous size, at which the last four *)
(* bytes read (bytes of the anomalous size may be among them) are          *)
(* 00 00 00 02, never earlier, or at the end of the input when there is no *)
(* such byte; the next unit written is a start code and the 2 bytes that   *)
(* follow, when the input has them.                                        *)
C4_Recovery ==
  [][/\ C4_SkipWritesNothing
     /\ C4_SkipEndsAtFirst2
     /\ C4_SkipEndsAtEof
     /\ C4_ResumesWith2Bytes]_vars

(* C4's case: the skip has ended on a 00 00 00 02 that begins inside the   *)
(* anomalous size, and 2 more bytes follow.                                *)
C4_Witness ==
  /\ pc = "t2loop" /\ skipFrom >= 0
  /\ ReadAt < skipFrom + 4
  /\ ReadAt + 2 <= Len(input)

(* The 4 bytes w, read as a big-endian size, are 8 or more. *)
SizeAtLeast8(w) == w[1] > 0 \/ w[2] > 0 \/ w[3] > 0 \/ w[4] >= 8

(* 'ftyp' is the second word of the 8 bytes at offset k of f. *)
FtypTagAt(f, k) == k + 8 <= Len(f) /\ BytesAt(f, k + 4, 4) = tag_ftyp

(* The 8 bytes at offset k of f are data the check of the start of the     *)
(* file knows: 0x00000002 as the first word, or a size of 8 or more and    *)
(* then 'ftyp'.                                                            *)
SignatureAt(f, k) ==
  /\ k + 8 <= Len(f)
  /\ \/ BytesAt(f, k, 4) = B4(2)
     \/ FtypTagAt(f, k) /\ SizeAtLeast8(BytesAt(f, k, 4))

HasSignature(f) == \E k \in 0..(Len(f) - 8) : SignatureAt(f, k)

FirstSignature(f) ==
  CHOOSE k \in 0..(Len(f) - 8) :
    SignatureAt(f, k) /\ \A j \in 0..(k - 1) : ~SignatureAt(f, j)

(* Up to offset k of f, no 'ftyp' follows a size below 8 (that is the      *)
(* error of C7): before the signature there are junk words and garbage     *)
(* bytes only.                                                             *)
JunkAndGarbageOnly(f, k) ==
  \A j \in 0..k : FtypTagAt(f, j) => SizeAtLeast8(BytesAt(f, j, 4))

(* C5: when the first signature of the input begins at offset k, behind    *)
(* junk words and garbage bytes in any mix, the check of the start of the  *)
(* file ends with its 8-byte window at offset k, whatever k is modulo 4.   *)
C5_StopsAtSignature ==
  (/\ winAt >= 0
   /\ HasSignature(input)
   /\ JunkAndGarbageOnly(input, FirstSignature(input))) =>
    /\ winAt = FirstSignature(input)
    /\ WordBytes(first4Bytes) = BytesAt(input, winAt, 4)
    /\ WordBytes(next4Bytes) = BytesAt(input, winAt + 4, 4)

(* C6 as it was stated: a file that is 8 or 40 zero bytes, 'ftyp' at once  *)
(* and then 'moov', 'mdat' and the 'ftyp' header in it is taken for repair *)
(* type 1 (no error at the start of the file), and the output begins with  *)
(* the size of that header and 'ftyp'.                                     *)
C6_ZerosThenTag ==
  input \in ZeroTagFiles =>
    /\ winAt >= 0 => fileStartIsOK = 1 /\ repairType = 1
    /\ (pc = "exit" /\ winAt >= 0 /\ started1 = 1) =>
         SubSeq(out, 1, 8) = B4(12) \o tag_ftyp

(* C6: a file that is 8 or 40 zero bytes, then a 'ftyp' atom (a size of 8  *)
(* or more, 'ftyp', its data), then 'moov', 'mdat' and the 'ftyp' header   *)
(* in it: the zero bytes are skipped, the window stops at the atom, the    *)
(* file is taken for repair type 1 and the output begins with the size of  *)
(* the header in 'mdat' and 'ftyp'. When 'ftyp' follows the zero bytes at  *)
(* once, the size before it is 0 and the run ends with an error.           *)
C6_ZeroFiller ==
  /\ input \in ZeroAtomFiles =>
       /\ repairType = 1
       /\ winAt >= 0 =>
            /\ fileStartIsOK = 1
            /\ next4Bytes = fourcc_ftyp
            /\ \E n \in ZeroRuns : winAt = n /\ BytesAt(input, 0, n) = Zeros(n)
       /\ (pc = "exit" /\ exitStatus = 0) =>
            started1 = 1 /\ SubSeq(out, 1, 8) = B4(12) \o tag_ftyp
  /\ (input \in ZeroTagFiles /\ winAt >= 0) =>
       fileStartIsOK = 0 /\ pc = "exit" /\ exitStatus = 1 /\ started1 + started2 = 0

(* C6's case: 40 zero bytes and a 'ftyp' atom of size 8; the file has been *)
(* repaired.                                                               *)
C6_Witness ==
  /\ input \in ZeroAtomFiles
  /\ winAt = 40
  /\ first4Bytes = <<0, 8>>
  /\ pc = "exit" /\ exitStatus = 0

(* The window of the check of the start of the file holds 'ftyp' behind a  *)
(* size below 8.                                                           *)
BadFtypWindow ==
  next4Bytes = fourcc_ftyp /\ first4Bytes[1] = 0 /\ first4Bytes[2] < 8

(* C7: in every iteration of the check of the start of the file, 'ftyp' is *)
(* tested for first: when next4Bytes is 'ftyp' and first4Bytes is below 8  *)
(* (0x00000002 and the junk word 0x00000000 among them) the run ends at    *)
(* once with exit status 1: the window is not moved, nothing is read and   *)
(* no engine is called.                                                    *)
C7_FtypRuleFirst ==
  [][(pc = "classify" /\ BadFtypWindow) =>
       /\ pc' = "exit" /\ exitStatus' = 1
       /\ fileStartIsOK' = 0
       /\ inputFID' = inputFID
       /\ first4Bytes' = first4Bytes /\ next4Bytes' = next4Bytes
       /\ repairType' = 1
       /\ started1' + started2' = 0 /\ out' = <<>>]_vars

(* C7's case: the window was moved byte by byte to 0x00000002 followed by  *)
(* 'ftyp', and the run has ended.                                          *)
C7_Witness ==
  /\ pc = "exit" /\ exitStatus = 1
  /\ first4Bytes = W2 /\ next4Bytes = fourcc_ftyp
  /\ winAt > 0

(* The check of the start of the file is over (the input file had been     *)
(* opened).                                                                *)
StartCheckOver ==
  pc \notin {"main", "start", "classify"} /\ (winAt >= 0 \/ inputFID.eof)

(* Its three results: repair type 1 (a size of 8 or more, then 'ftyp'),    *)
(* repair type 2 (0x00000002, not followed by 'ftyp'), or an error: exit   *)
(* status 1 and no engine called.                                          *)
StartIsType1 ==
  fileStartIsOK = 1 /\ next4Bytes = fourcc_ftyp /\ ~BadFtypWindow
StartIsType2 ==
  /\ fileStartIsOK = 1 /\ next4Bytes # fourcc_ftyp /\ first4Bytes = W2
  /\ repairType = 2 /\ repairType2Second4Bytes = next4Bytes
StartIsFatal ==
  /\ fileStartIsOK # 1
  /\ pc = "exit" /\ exitStatus = 1 /\ started1 + started2 = 0 /\ out = <<>>

(* The read that a junk word (4 bytes) or a garbage byte (1 byte) in the   *)
(* window asks for goes beyond the end of the input.                       *)
JunkWindow == first4Bytes = W0 \/ first4Bytes = WFF
ExhaustedInSkip ==
  /\ pc = "classify"
  /\ next4Bytes # fourcc_ftyp /\ first4Bytes # W2
  /\ Len(input) - ReadAt < (IF JunkWindow THEN 4 ELSE 1)

C8_OneResult ==
  StartCheckOver =>
    /\ StartIsType1 \/ StartIsType2 \/ StartIsFatal
    /\ ~(StartIsType1 /\ StartIsFatal) /\ ~(StartIsType2 /\ StartIsFatal)
    /\ ~(StartIsType1 /\ StartIsType2)
    /\ Len(input) < 8 => StartIsFatal

(* C8: on every input the check of the start of the file ends, with        *)
(* exactly one of three results: repair type 1, repair type 2, or an       *)
(* error. It is an error (exit status 1, no engine called) when the input  *)
(* has fewer than 8 bytes, and when the input ends in the read that        *)
(* follows a junk word or a garbage byte.                                  *)
C8_StartCheckEnds ==
  /\ (pc \in {"start", "classify"}) ~> StartCheckOver
  /\ []C8_OneResult
  /\ [][ExhaustedInSkip => StartIsFatal']_vars

(* C8's case: the window was moved on until the input ended in the read of *)
(* the next garbage byte.                                                  *)
C8_Witness ==
  /\ StartCheckOver /\ StartIsFatal
  /\ winAt > 0 /\ inputFID.eof
  /\ ~JunkWindow

(* doRepairType2 is in its loop over the NAL units, or in the loop in it   *)
(* that skips anomalous bytes.                                             *)
InUnitLoop == pc \in {"t2loop", "t2size"}
InSkipLoop == pc = "t2skip"

(* C9: with a valid format code, doRepairType2 ends on every input: its    *)
(* loop over the NAL units and its loop over anomalous bytes are both left *)
(* at the latest when the input has ended, also when no 0x00000002 follows *)
(* an anomalous size.                                                      *)
C9_RestreamEnds ==
  /\ (InUnitLoop \/ InSkipLoop) ~> (engineDone /\ pc = "exit")
  /\ [](InSkipLoop => ~inputFID.eof)

(* C9's case: the input ended in the loop over anomalous bytes, no         *)
(* 0x00000002 having followed the anomalous size, and the run is over.     *)
C9_Witness ==
  /\ pc = "exit" /\ exitStatus = 0 /\ started2 = 1
  /\ skipFrom >= 0 /\ nalSize # W2
  /\ inputFID.eof

(* The search for 0x00000002 that follows a failed repair type 1 was given *)
(* up.                                                                     *)
ScanGaveUp == repairType = 2 /\ repairType2Second4Bytes = Undef

(* An engine was called, once, and it returned. *)
OneEngineRan == started1 + started2 = 1 /\ engineDone

(* C10: main returns 0 if and only if exactly one of doRepairType1 and     *)
(* doRepairType2 was called, once, and returned; after an error (at the    *)
(* start of the file, in the search for 0x00000002, on opening a file) it  *)
(* returns 1 and no engine was called.                                     *)
C10_ExitStatus ==
  /\ started1 + started2 <= 1
  /\ engineDone => started1 + started2 = 1
  /\ pc = "exit" =>
       /\ exitStatus \in {0, 1}
       /\ exitStatus = 0 <=> OneEngineRan
       /\ exitStatus = 1 => started1 + started2 = 0 /\ out = <<>>
       /\ (fileStartIsOK # 1 \/ ScanGaveUp) => exitStatus = 1

(* An entry has been read at the prompt that is not a format code. *)
InvalidEntryRead ==
  pc = "prompt" /\ formatCode # -2 /\ ~ValidFormatCode(formatCode)

(* The output begins with the SPS and PPS NAL units of the switch's        *)
(* default (SPS_1080p30 and PPS_P2VP, those of the format code '8').       *)
DefaultProfileWritten ==
  /\ Len(out) >= Len(ParameterSets(SPS_1080p30, PPS_P2VP))
  /\ SubSeq(out, 1, Len(ParameterSets(SPS_1080p30, PPS_P2VP)))
       = ParameterSets(SPS_1080p30, PPS_P2VP)

(* C11: in repair type 2, an entry that is none of the 15 format codes     *)
(* does not stop or stall the engine: it goes on to write the output with  *)
(* the default SPS and PPS (SPS_1080p30, PPS_P2VP).                        *)
C11_InvalidGetsDefault == InvalidEntryRead ~> DefaultProfileWritten

(* The input from offset p to its end (nothing when p is at or beyond the  *)
(* end).                                                                   *)
InputFrom(p) == SubSeq(input, p + 1, Len(input))

(* C12: doRepairType1 writes the 8 bytes of the 'ftyp' header and then     *)
(* exactly the bytes of the input from the read position it was called     *)
(* with to the end of the input: the same bytes in the same order, none    *)
(* added, dropped or changed.                                              *)
C12_PassThrough ==
  [][pc = "type1" =>
       /\ Len(out') = 8 + Len(InputFrom(ReadAt))
       /\ SubSeq(out', 9, Len(out')) = InputFrom(ReadAt)
       /\ eofFill' = W0
       /\ inputFID'.eof /\ inputFID'.pos[2] = Len(input)]_vars

(* C12's case: doRepairType1 was called in the middle of an input that     *)
(* goes on with more than one atom header, zero bytes among them, and has  *)
(* copied all of it.                                                       *)
C12_Witness ==
  /\ started1 = 1 /\ engineDone
  /\ curPos[2] > 0
  /\ Len(out) > 24
  /\ SubSeq(out, 9, Len(out)) = InputFrom(curPos[2])

(* Repair type 1 has been decided on and the loop over repeated sequences  *)
(* is over: main is about to open the output file, or to call              *)
(* doRepairType1.                                                          *)
WalkOver == repairType = 1 /\ pc \in {"open", "repair", "type1"}

(* C13 as it was stated: after the loop over repeated 'ftyp', 'moov',      *)
(* 'mdat'('ftyp') sequences the read position is right after the first     *)
(* 'ftyp' header matched in the first 'mdat', however many sequences were  *)
(* matched.                                                                *)
C13_RestoredAfterFirst ==
  WalkOver => matches # <<>> /\ ReadAt = matches[1] + 8

(* C13: after the loop over repeated 'ftyp', 'moov', 'mdat'('ftyp')        *)
(* sequences, whether it matched none, one or more of them, the read       *)
(* position is right after the last (innermost) 'ftyp' header matched,     *)
(* which is the first one when no sequence was matched, and doRepairType1  *)
(* copies the input from that position on.                                 *)
C13_RestoredAfterLast ==
  /\ WalkOver =>
       /\ matches # <<>>
       /\ ReadAt = InnermostFtyp + 8
       /\ curPos = inputFID.pos
       /\ ~inputFID.eof
       /\ BytesAt(input, InnermostFtyp + 4, 4) = tag_ftyp
       /\ Len(matches) = 1 => ReadAt = matches[1] + 8
  /\ (started1 = 1 /\ engineDone) =>
       SubSeq(out, 9, Len(out)) = InputFrom(InnermostFtyp + 8)

(* C13's case: two repeated sequences were matched (three 'ftyp' headers   *)
(* in all), the position was restored and doRepairType1 is about to be     *)
(* called; the loop had read on beyond the restored position.              *)
C13_Witness ==
  /\ pc = "type1"
  /\ Len(matches) = 3
  /\ matches[1] < matches[2] /\ matches[2] < matches[3]
  /\ ReadAt + 8 < Len(input)

(* At offset p of f there is a whole atom header with the tag (4 bytes)    *)
(* tag: a size of 8 or more, then the tag.                                 *)
AtomAt(f, p, tag) ==
  /\ p + 8 <= Len(f)
  /\ BytesAt(f, p + 4, 4) = tag
  /\ SizeAtLeast8(BytesAt(f, p, 4))

(* At offset p of f there are 0x00000002 and 4 more bytes. *)
TwoAt(f, p) == p + 8 <= Len(f) /\ BytesAt(f, p, 4) = B4(2)

(* The 4 bytes at offset p of f as an unsigned. *)
WordAt(f, p) == Word(f[p + 1], f[p + 2], f[p + 3], f[p + 4])

(* 'mdat' is found and its data does not begin with a 'ftyp' header: main  *)
(* does not return, it goes on to the search for 0x00000002 with           *)
(* repairType 2.                                                           *)
C14_NotFatal ==
  (/\ pc = "mdat"
   /\ AtomAt(input, ReadAt, tag_mdat)
   /\ ~AtomAt(input, ReadAt + 8, tag_ftyp)) =>
    /\ pc' = "scan" /\ exitStatus' = -1
    /\ repairType' = 2
    /\ fellBack'.probe = "ftyp" /\ fellBack'.at = ReadAt + 8

(* The data of 'mdat' begins with 0x00000002 and 4 more bytes: the search  *)
(* finds them at once, and doRepairType2 is called (once the output file   *)
(* is open) with the 4 bytes after 0x00000002 as its second4Bytes.         *)
C14_CarriedWord ==
  (fellBack.probe = "ftyp" /\ TwoAt(input, fellBack.at)) =>
    /\ fellBack.scan = fellBack.at
    /\ repairType = 2 /\ started1 = 0
    /\ pc # "scan" =>
         /\ saw2 = 1
         /\ repairType2Second4Bytes = WordAt(input, fellBack.at + 4)
    /\ (pc = "exit" /\ exitStatus = 1) => started2 = 0 /\ saw2 = 1
    /\ pc \in {"prompt", "t2first"} =>
         started2 = 1 /\ ReadAt = fellBack.at + 8

(* C14: in repair type 1, when 'mdat' is found and its data does not begin *)
(* with a valid 'ftyp' header, main does not give up: repairType becomes 2 *)
(* and the search for 0x00000002 follows; when the data of 'mdat' begins   *)
(* with 0x00000002 and at least 4 more bytes, doRepairType2 is called with *)
(* those 4 bytes as second4Bytes.                                          *)
C14_MdatFallback == []C14_CarriedWord /\ [][C14_NotFatal]_vars

(* C14's case: the data of 'mdat' began with 0x00000002, 'A', 'B', and     *)
(* doRepairType2 has restreamed the file.                                  *)
C14_Witness ==
  /\ fellBack.probe = "ftyp" /\ TwoAt(input, fellBack.at)
  /\ started2 = 1 /\ pc = "exit" /\ exitStatus = 0
  /\ repairType2Second4Bytes = <<65 * 256 + 66, 0>>

(* The search for 0x00000002 that follows a failed probe is over. *)
ScanOver == fellBack.probe # "none" /\ pc # "scan"

(* The words of the input at 4-byte steps from the offset the search began *)
(* at that are 0x00000002 with 4 more bytes behind them.                   *)
AlignedTwos ==
  {i \in 0..(Len(input) \div 4) : TwoAt(input, fellBack.scan + 4 * i)}

(* The first of them. *)
FirstAlignedTwo == CHOOSE i \in AlignedTwos : \A j \in AlignedTwos : i <= j

(* C15: the search for 0x00000002 that follows a failed probe of repair    *)
(* type 1 tests every word at a 4-byte step from the offset it began at:   *)
(* when the first such word that is 0x00000002 (with 4 more bytes behind   *)
(* it) has the index i, the search ends there and the 4 bytes behind it    *)
(* are kept for doRepairType2; main gives up only when there is no such    *)
(* word.                                                                   *)
C15_EveryAlignedWord ==
  ScanOver =>
    IF AlignedTwos # {}
    THEN /\ saw2 = 1
         /\ repairType2Second4Bytes
              = WordAt(input, fellBack.scan + 4 * FirstAlignedTwo + 4)
    ELSE pc = "exit" /\ exitStatus = 1 /\ saw2 = 0

(* C16: in both fallbacks of repair type 1 (the probe for 'mdat' failed,   *)
(* or the probe for 'ftyp' in 'mdat' failed) the search for 0x00000002     *)
(* begins at the offset the failed probe began at, so that the 8 bytes the *)
(* probe read are themselves tested: when they are 0x00000002 and 4 more   *)
(* bytes, the search finds them and keeps the 4 bytes for doRepairType2.   *)
C16_ScanFromProbeStart ==
  fellBack.probe # "none" =>
    /\ fellBack.scan = fellBack.at
    /\ (TwoAt(input, fellBack.at) /\ pc # "scan") =>
         /\ saw2 = 1
         /\ repairType2Second4Bytes = WordAt(input, fellBack.at + 4)

(* The offset in the input the next read starts at, for any position: one  *)
(* beyond 65535 is beyond the end of every input and is given as 65536.    *)
ReadOffset == IF inputFID.pos[1] = 0 THEN inputFID.pos[2] ELSE Half

(* The four atom tags the program probes for. *)
ProbedTags == {tag_ftyp, tag_moov, tag_free, tag_mdat}

(* n is the size (4 bytes, big-endian) at offset p of f, less 8. *)
IsSizeLess8(n, f, p) ==
  /\ (n[2] + 8) % Half = WordAt(f, p)[2]
  /\ n[1] = WordAt(f, p)[1] - (IF WordAt(f, p)[2] < 8 THEN 1 ELSE 0)

(* What checkAtom has to return (r) when called at position p of f for the *)
(* tag (4 bytes) tag, the caller's result variable holding old.            *)
ProbeResult(f, p, tag, old, r) ==
  /\ r.ok <=> AtomAt(f, p, tag)
  /\ r.ok =>
       /\ IsSizeLess8(r.n, f, p)
       /\ r.fid.pos = Pos(p + 8) /\ ~r.fid.eof
  /\ ~r.ok =>
       /\ r.n = old
       /\ \/ p + 8 > Len(f) /\ r.fid.eof
          \/ p + 8 <= Len(f) /\ BytesAt(f, p + 4, 4) # tag
          \/ p + 8 <= Len(f) /\ ~SizeAtLeast8(BytesAt(f, p, 4))

(* C17: checkAtom, called at any position the program reaches and for any  *)
(* of the four tags, fails exactly when the input ends within the 8 bytes  *)
(* of the header, or the tag read is not the one looked for, or the size   *)
(* is below 8. When it succeeds the result is the size less 8 and the read *)
(* position is 8 bytes on, right behind the header; when it fails the      *)
(* caller's variable keeps its value.                                      *)
C17_Probe ==
  \A tag \in ProbedTags :
    ProbeResult(input, ReadOffset, tag, numBytesToSkip,
                checkAtom(input, inputFID, Word(tag[1], tag[2], tag[3], tag[4]),
                          numBytesToSkip))

(* C17's case: the probe for 'mdat' read a whole header, 'mdat' with the   *)
(* size 3, and failed; the probe for 'moov' before it had succeeded and    *)
(* its result, 0, is still in numBytesToSkip.                              *)
C17_Witness ==
  /\ fellBack.probe = "mdat"
  /\ fellBack.at + 8 <= Len(input)
  /\ BytesAt(input, fellBack.at, 8) = B4(3) \o tag_mdat
  /\ fellBack.scan = fellBack.at + 8
  /\ AtomAt(input, 8, tag_moov)
  /\ numBytesToSkip = W0

(* The tag of the optional atom that main probes for next. *)
OptionalTag == IF pc = "moov" THEN tag_moov ELSE tag_free

(* C18: in repair type 1, when the probe for 'moov' or for 'free' fails    *)
(* and the rewind by 8 bytes that follows succeeds, the read position is   *)
(* the one the probe began at (a failed probe and the rewind together      *)
(* leave it unchanged), also when the input had fewer than 8 bytes left at *)
(* the probe.                                                              *)
C18_RewindRestores ==
  [][(/\ pc \in {"moov", "free"}
      /\ ~AtomAt(input, ReadOffset, OptionalTag)
      /\ pc' # "exit") => inputFID'.pos = inputFID.pos]_vars

(* The check of the start of the file ended without an error. *)
Classified == StartCheckOver /\ fileStartIsOK = 1

(* The repair type the check of the start of the file ended with: 1 when   *)
(* it stopped at 'ftyp', 2 when it stopped at 0x00000002.                  *)
ClassifiedAs == IF next4Bytes = fourcc_ftyp THEN 1 ELSE 2

(* C19 as it was stated: repairType is decided by the check of the start   *)
(* of the file and never changes afterwards; the engine called is the one  *)
(* for the value repairType had when that check ended.                     *)
C19_PathNeverChanges ==
  Classified =>
    /\ repairType = ClassifiedAs
    /\ started1 = 1 => ClassifiedAs = 1
    /\ started2 = 1 => ClassifiedAs = 2

(* After the check of the start of the file, repairType differs from what  *)
(* that check decided only after a fallback, which is from 1 to 2; the     *)
(* engine called is the one repairType names.                              *)
C19_PathAfterStart ==
  Classified =>
    /\ repairType \in {1, 2}
    /\ ClassifiedAs = 2 => repairType = 2 /\ fellBack.probe = "none"
    /\ repairType # ClassifiedAs <=> fellBack.probe # "none"
    /\ started1 = 1 => repairType = 1 /\ started2 = 0
    /\ started2 = 1 => repairType = 2 /\ started1 = 0

(* repairType changes from 1 to 2 only, in the check of the start of the   *)
(* file or in a fallback of the 'mdat' check, and before an engine is      *)
(* called.                                                                 *)
C19_OnlyOneToTwo ==
  repairType' # repairType =>
    /\ repairType = 1 /\ repairType' = 2
    /\ pc \in {"classify", "mdat"}
    /\ pc = "mdat" => fellBack.probe = "none" /\ fellBack'.probe # "none"
    /\ started1 + started2 = 0

(* C19: repairType is decided first by the check of the start of the file; *)
(* afterwards it changes at most once, from 1 to 2 in a fallback (the      *)
(* probe for 'mdat', or for 'ftyp' in 'mdat', failed), never back and      *)
(* never once an engine has been called; the engine that runs is the one   *)
(* that repairType names when it is called, which is the one the start     *)
(* check decided on unless there was a fallback.                           *)
C19_PathDecided == []C19_PathAfterStart /\ [][C19_OnlyOneToTwo]_vars

(* C19's case: the start of the file was 'ftyp' (repair type 1), a probe   *)
(* failed, and doRepairType2 has repaired the file.                        *)
C19_Witness ==
  /\ Classified /\ ClassifiedAs = 1
  /\ fellBack.probe # "none"
  /\ started2 = 1 /\ pc = "exit" /\ exitStatus = 0

(* The 8 bytes of the window (first4Bytes, next4Bytes), big-endian. *)
WindowBytes == WordBytes(first4Bytes) \o WordBytes(next4Bytes)

(* C20: at the start of every iteration of the loop that checks the start  *)
(* of the file, first4Bytes and next4Bytes are, big-endian, the 8 bytes of *)
(* the input that end at the read position: after the first 8 bytes have   *)
(* been read, after every shift by a junk word (4 bytes) and after every   *)
(* shift by a garbage byte.                                                *)
C20_WindowIsLast8 ==
  pc = "classify" =>
    /\ inputFID.pos[1] = 0 /\ ~inputFID.eof
    /\ ReadAt >= 8 /\ ReadAt <= Len(input)
    /\ WindowBytes = BytesAt(input, ReadAt - 8, 8)

(* C20's case: the window was shifted by a junk word and by a garbage byte *)
(* that is not 0, and the loop is at the start of its next iteration.      *)
C20_Witness ==
  /\ pc = "classify"
  /\ ReadAt = 13
  /\ BytesAt(input, 0, 4) \in {B4(0), <<255, 255, 255, 255>>}
  /\ input[13] # 0

(* nalSize is a size that the test of L517 lets through: 1..0x00FFFFFF. *)
PlausibleNalSize == nalSize # W0 /\ nalSize[1] >= 0 /\ nalSize[1] <= 255

(* C21: in repair type 2, every size that the copy of a NAL unit is begun  *)
(* with is in 1..0x00FFFFFF: the size of the first unit (the low 16 bits   *)
(* of second4Bytes and the next two bytes of the input), every size read   *)
(* in the loop, and the size left by the skip over anomalous bytes.        *)
C21_SizeInRange == pc = "t2loop" => PlausibleNalSize

(* The output file has been named: the buffer was allocated and written.   *)
OutputNamed == outputFileNameSize # -1

(* C22: whatever the name of the input file and the repair type, the       *)
(* buffer allocated for the name of the output file is at least as long as *)
(* what is written into it: the name up to its last '.', "-repaired", '.', *)
(* "mp4" or "h264", and the NUL that ends the string.                      *)
C22_NameFits ==
  OutputNamed =>
    /\ outputFileName
         = inputFileName \o repairedFilenameStr \o <<46>>
             \o (IF repairType = 1 THEN <<109, 112, 52>> ELSE <<104, 50, 54, 52>>)
    /\ outputFileNameSize >= Len(outputFileName) + 1

=============================================================================
